---- MODULE Spec2Model ----
(***************************************************************************)
(* Model of the control core of generic-pico-sw.                           *)
(*                                                                         *)
(* SpecLED       : indicate_state and the cooperative animation tasks      *)
(*                 (src/utils/service_led.py).                             *)
(* SpecSensor    : initialize_sensors, update_sensors and the MQTT         *)
(*                 callback (src/sensors/sensor_manager.py,                *)
(*                 src/sensors/base_sensor.py).                            *)
(* SpecError     : ErrorHandler.handle_error.                              *)
(* SpecSystem    : SystemManager._make_cb and the configuration file.      *)
(* SpecWifi      : Application.run: the startup sequence, the lifecycle,   *)
(*                 WiFiManager.connect, the watchdog and the main loop.    *)
(* SpecLifecycle : Lifecycle.transition_to and the state manager.          *)
(* SpecLoop      : the main task and the animation task in steady state.   *)
(***************************************************************************)
EXTENDS Integers, Sequences, FiniteSets, TLC

(***************************************************************************)
(* Bounds of the model.                                                    *)
(***************************************************************************)
\* number of animation tasks indicate_state may create in one run
MaxTasks == 2
\* iterations of the pattern a times == 0 animation is followed for
MaxIter == 2
\* the clock (time.time(), in seconds) runs from 0 to MaxTime
MaxTime == 2
\* number of keys of a configuration message
MaxKeys == 1
MaxRetries == 2     \* largest max_retries of a reconnect strategy
MaxPasses == 2      \* passes of the main loop followed by SpecWifi and SpecLoop
MaxTransitions == 3 \* calls of Lifecycle.transition_to in one run

(***************************************************************************)
(* Service LED: configuration                                              *)
(***************************************************************************)
\* src/control/device_state.py
DeviceStates == {"STARTUP", "ACTIVE", "INACTIVE", "ERROR", "SLEEPING", "GLOBAL_ERROR"}

\* ServiceLED.off_color, (0, 0, 0)
off_color == "off"

\* A missing key of a state entry (dict.get returns None).
None == "None"

\* state_leds: the service_led.state_leds section of the configuration.
\* Durations are in units of 0.5 s, so <<1, 2>> is the pattern [0.5, 1.0].
\* INACTIVE has no entry, SLEEPING has an empty blink_pattern, ERROR an empty
\* colour list and GLOBAL_ERROR no "color" key at all.
state_leds ==
    [s \in {"STARTUP", "ACTIVE", "ERROR", "SLEEPING", "GLOBAL_ERROR"} |->
        CASE s = "STARTUP"      -> [color |-> "red",   blink_pattern |-> <<1, 2>>, times |-> 2]
          [] s = "ACTIVE"       -> [color |-> "green", blink_pattern |-> <<2>>,    times |-> 0]
          [] s = "ERROR"        -> [color |-> "",      blink_pattern |-> <<1>>,    times |-> 1]
          [] s = "SLEEPING"     -> [color |-> "blue",  blink_pattern |-> <<>>,     times |-> 1]
          [] s = "GLOBAL_ERROR" -> [color |-> None,    blink_pattern |-> <<1>>,    times |-> 1]]

VARIABLES
    \* ---- service LED ----
    tasks,          \* the animation tasks created so far, in creation order
    current_task,   \* ServiceLED.current_task: 0 (None) or an index of tasks
    rgb_led,        \* the colour last written to the pixel
    led_writes,     \* history: every rgb_led.write() of an animation task
    indicate_result, \* history: how the last indicate_state call ended
    \* ---- sensor scheduler ----
    phase,          \* "boot": constructed; "messages", "update", "sleep": the main
                    \* loop before that call; "halted": the loop ended
    now,            \* time.time()
    sensors,        \* SensorManager.sensors: sensor id -> [state |-> BaseSensor._state]
    parameters,     \* sensor id -> its parameters["editable"] dict (aliases Config.data)
    next_update_times, \* SensorManager._next_update_times: a dict, sensor id -> time
    subscribed,     \* sensor id -> the topics (commands, config) subscribed at the broker
    disk,           \* the configuration file: the editable parameters it holds
    last_publish,   \* history: sensor id -> the time of its last publish
    last,           \* history: what the last operation did
    \* ---- error handler ----
    handled,        \* a call of ErrorHandler.handle_error: its policy and its outcome
    \* ---- system manager ----
    system,         \* the system configuration, the file, the power state and
                    \* the record of the last system message
    \* ---- Wi-Fi manager and the run loop around it ----
    wifi,           \* the Wi-Fi configuration, the station's link, and where
                    \* Application.run and WiFiManager.connect stand
    \* ---- lifecycle and state manager ----
    lifecycle,      \* Lifecycle.current_state, the StateManager's fields, the
                    \* state payloads published, and the last transition_to
    \* ---- the tasks of the event loop ----
    loop            \* which task runs, and the log of what began and ended

ledVars == <<tasks, current_task, rgb_led, led_writes, indicate_result>>

sensorVars ==
    <<phase, now, sensors, parameters, next_update_times, subscribed, disk, last_publish, last>>

errorVars == <<handled>>

systemVars == <<system>>

wifiVars == <<wifi>>

lifecycleVars == <<lifecycle>>

loopVars == <<loop>>

vars == <<tasks, current_task, rgb_led, led_writes, indicate_result,
          phase, now, sensors, parameters, next_update_times, subscribed, disk,
          last_publish, last, handled, system, wifi, lifecycle, loop>>

(***************************************************************************)
(* Service LED: the animation coroutine _animate_led                       *)
(*                                                                         *)
(* A task is the coroutine's frame plus the scheduler's cancel mark:       *)
(*   pc         "new"       created, not yet run                           *)
(*              "sleep_on"  suspended in the sleep after the "on" write    *)
(*              "sleep_off" suspended in the sleep after the "off" write   *)
(*              "done"      finished                                       *)
(*   idx        position of `duration` in blink_pattern (1-based)          *)
(*   cancel_req Task.cancel() was called while the task was not done       *)
(***************************************************************************)
NewTask(color, blink_pattern, times) ==
    [color |-> color, blink_pattern |-> blink_pattern, times |-> times,
     pc |-> "new", iteration |-> 0, idx |-> 0, cancel_req |-> FALSE]

\* One write of the pixel by task i, followed by a sleep of dur (0: no sleep).
Write(i, color, dur) == [task |-> i, color |-> color, dur |-> dur]

\* The loop test without its `times == 0` case.
LoopCond_NoInfinite(times, iteration) == iteration < times

\* `while times == 0 or iteration < times`
LoopCond(times, iteration) == times = 0 \/ iteration < times

\* The finally block: force the pixel off, and the coroutine ends.
Cleanup(t, i) ==
    [task |-> [t EXCEPT !.pc = "done"], writes |-> <<Write(i, off_color, 0)>>]

\* The "on" half of a pattern entry: write the colour, await sleep(duration).
OnPhase(t, i, iteration, idx) ==
    [task   |-> [t EXCEPT !.pc = "sleep_on", !.iteration = iteration, !.idx = idx],
     writes |-> <<Write(i, t.color, t.blink_pattern[idx])>>]

\* An "off" half that sleeps for the duration of the following pattern entry.
OffPhase_NextDuration(t, i) ==
    [task   |-> [t EXCEPT !.pc = "sleep_off"],
     writes |-> <<Write(i, off_color,
                        t.blink_pattern[IF t.idx < Len(t.blink_pattern) THEN t.idx + 1 ELSE 1])>>]

\* The "off" half: write off_color, await sleep(duration) of the same entry.
OffPhase(t, i) ==
    [task   |-> [t EXCEPT !.pc = "sleep_off"],
     writes |-> <<Write(i, off_color, t.blink_pattern[t.idx])>>]

\* Top of the while loop with `iteration`: enter the for loop or fall to finally.
LoopTop(t, i, iteration) ==
    IF LoopCond(t.times, iteration)
    THEN OnPhase(t, i, iteration, 1)
    ELSE Cleanup([t EXCEPT !.iteration = iteration], i)

\* The scheduler resumes task t (index i): the coroutine runs to its next await
\* or to its end.  A pending cancellation is thrown into it at the point where
\* it is suspended; thrown into a coroutine that has not started, it ends the
\* coroutine before the try block is entered, so the finally does not run.
Resume(t, i) ==
    CASE t.pc = "new" /\ t.cancel_req      -> [task |-> [t EXCEPT !.pc = "done"], writes |-> <<>>]
      [] t.pc = "new" /\ ~t.cancel_req     -> LoopTop(t, i, 0)
      [] t.pc = "sleep_on" /\ t.cancel_req   -> Cleanup(t, i)
      [] t.pc = "sleep_on" /\ ~t.cancel_req  -> OffPhase(t, i)
      [] t.pc = "sleep_off" /\ t.cancel_req  -> Cleanup(t, i)
      [] t.pc = "sleep_off" /\ ~t.cancel_req ->
            IF t.idx < Len(t.blink_pattern)
            THEN OnPhase(t, i, t.iteration, t.idx + 1)
            ELSE LoopTop(t, i, t.iteration + 1)

\* Task.cancel(): marks a task that is not done; a finished task is left alone.
Cancel(t) == IF t.pc = "done" THEN t ELSE [t EXCEPT !.cancel_req = TRUE]

(***************************************************************************)
(* Service LED: actions                                                    *)
(***************************************************************************)
InitLED ==
    /\ tasks = <<>>
    /\ current_task = 0
    /\ rgb_led = off_color
    /\ led_writes = <<>>
    /\ indicate_result = "none"

\* ServiceLED.indicate_state(state): what it does to the LED and its tasks.
Indicate(state) ==
    /\ Len(tasks) < MaxTasks
    /\ IF state \notin DOMAIN state_leds
       THEN \* `if not state_config: return`
            /\ indicate_result' = "no_config"
            /\ UNCHANGED <<tasks, current_task, rgb_led, led_writes>>
       ELSE LET cfg == state_leds[state] IN
            IF cfg.color = None
            THEN \* tuple(None) raises TypeError
                 /\ indicate_result' = "raised"
                 /\ UNCHANGED <<tasks, current_task, rgb_led, led_writes>>
            ELSE IF cfg.blink_pattern = <<>> \/ cfg.color = ""
            THEN \* `if not blink_pattern or not color: return`
                 /\ indicate_result' = "invalid"
                 /\ UNCHANGED <<tasks, current_task, rgb_led, led_writes>>
            ELSE \* cancel the current task, then create_task at once
                 /\ tasks' = Append(
                        IF current_task # 0
                        THEN [tasks EXCEPT ![current_task] = Cancel(@)]
                        ELSE tasks,
                        NewTask(cfg.color, cfg.blink_pattern, cfg.times))
                 /\ current_task' = Len(tasks) + 1
                 /\ indicate_result' = "started"
                 /\ UNCHANGED <<rgb_led, led_writes>>

\* ServiceLED.indicate_state(state), called by the running (main) task.
IndicateState(state) ==
    /\ Indicate(state)
    /\ UNCHANGED sensorVars
    /\ UNCHANGED errorVars
    /\ UNCHANGED systemVars
    /\ UNCHANGED wifiVars
    /\ UNCHANGED lifecycleVars
    /\ UNCHANGED loopVars

\* A state without a usable indicator entry: no entry, an entry without a
\* pattern, or one without a colour.
NoIndicator(state) ==
    \/ state \notin DOMAIN state_leds
    \/ state \in DOMAIN state_leds
        /\ \/ state_leds[state].blink_pattern = <<>>
           \/ state_leds[state].color \in {None, ""}

\* C21: indicate_state for a state with no indicator entry, or an entry
\* lacking blink_pattern or color, returns normally, leaves the running
\* animation alone and writes nothing to the LED.
C21_InvalidEntryIgnored ==
    [][\A state \in DeviceStates :
          (IndicateState(state) /\ NoIndicator(state))
              => /\ indicate_result' \in {"no_config", "invalid"}
                 /\ UNCHANGED <<tasks, current_task, rgb_led, led_writes>>]_vars

\* The event loop resumes animation task i.  The order in which ready tasks are
\* resumed, and how long the main task runs before it yields, are the
\* scheduler's: any task that is not done may be the next one to run.
RunTask(i) ==
    /\ tasks[i].pc # "done"
    /\ tasks[i].times = 0 /\ ~tasks[i].cancel_req => tasks[i].iteration < MaxIter
    /\ LET r == Resume(tasks[i], i) IN
        /\ tasks' = [tasks EXCEPT ![i] = r.task]
        /\ led_writes' = led_writes \o r.writes
        /\ rgb_led' = IF r.writes = <<>> THEN rgb_led ELSE r.writes[Len(r.writes)].color
    /\ UNCHANGED <<current_task, indicate_result>>
    /\ UNCHANGED sensorVars
    /\ UNCHANGED errorVars
    /\ UNCHANGED systemVars
    /\ UNCHANGED wifiVars
    /\ UNCHANGED lifecycleVars
    /\ UNCHANGED loopVars

NextLED ==
    \/ \E state \in DeviceStates : IndicateState(state)
    \/ \E i \in 1..Len(tasks) : RunTask(i)


(***************************************************************************)
(* Service LED: properties                                                 *)
(***************************************************************************)
\* The writes of task i, in order.
WritesOf(i) == SelectSeq(led_writes, LAMBDA w : w.task = i)

Unfinished == {i \in 1..Len(tasks) : tasks[i].pc # "done"}

IsPrefix(s, t) == Len(s) <= Len(t) /\ SubSeq(t, 1, Len(s)) = s

\* One pass over pattern p from entry k: on p[k], off p[k], on p[k+1], ...
RECURSIVE OnePass(_, _, _, _)
OnePass(i, color, p, k) ==
    IF k > Len(p) THEN <<>>
    ELSE <<Write(i, color, p[k]), Write(i, off_color, p[k])>> \o OnePass(i, color, p, k + 1)

\* n passes over pattern p.
RECURSIVE Passes(_, _, _, _)
Passes(i, color, p, n) ==
    IF n = 0 THEN <<>> ELSE OnePass(i, color, p, 1) \o Passes(i, color, p, n - 1)

\* C1: indicate_state does not create the new animation task before the
\* previous one has run its cleanup and terminated, so at most one unfinished
\* animation task exists in every reachable state.
C1_AtMostOneUnfinished == Cardinality(Unfinished) <= 1

\* C2: the writes of two animations never interleave (every write of the
\* earlier task precedes every write of the later one), and the pixel is off
\* just before a task's first "on" write.
C2_WritesDoNotInterleave ==
    /\ \A k \in 1..(Len(led_writes) - 1) : led_writes[k].task <= led_writes[k + 1].task
    /\ \A k \in 2..Len(led_writes) :
          (\A j \in 1..(k - 1) : led_writes[j].task # led_writes[k].task)
              => led_writes[k - 1].color = off_color

\* C3: an animation with times > 0 that is never cancelled writes exactly
\* times * len(pattern) "on" phases, each followed by an "off" phase of the same
\* duration, in pattern order, and then ends with one last write of off_color.
C3_FinitePhases ==
    \A i \in 1..Len(tasks) :
        LET t == tasks[i]
            all == Passes(i, t.color, t.blink_pattern, t.times)
        IN  (t.times > 0 /\ ~t.cancel_req) =>
                IF t.pc = "done"
                THEN WritesOf(i) = all \o <<Write(i, off_color, 0)>>
                ELSE IsPrefix(WritesOf(i), all)

\* C3 witness: the pattern [0.5, 1.0] with times = 2 ran to its end uncancelled.
C3_Witness ==
    \E i \in 1..Len(tasks) :
        /\ tasks[i].pc = "done" /\ ~tasks[i].cancel_req
        /\ tasks[i].blink_pattern = <<1, 2>> /\ tasks[i].times = 2
        /\ Len(WritesOf(i)) = 9

\* C4: a times == 0 animation ends only by cancellation, and an animation that
\* was cancelled after it began running made its last write with off_color.
C4_InfiniteUntilCancelled ==
    \A i \in 1..Len(tasks) :
        LET t == tasks[i]
            w == WritesOf(i)
        IN  t.pc = "done" =>
              /\ t.times = 0 => t.cancel_req
              /\ (t.cancel_req /\ w # <<>>) => w[Len(w)].color = off_color

\* C4 witness: a times == 0 animation was cancelled in its "on" sleep and ended.
C4_Witness ==
    \E i \in 1..Len(tasks) :
        LET w == WritesOf(i) IN
        /\ tasks[i].times = 0 /\ tasks[i].pc = "done" /\ tasks[i].cancel_req
        /\ Len(w) >= 2 /\ w[Len(w) - 1].color = tasks[i].color

(***************************************************************************)
(* Error handler                                                           *)
(***************************************************************************)
\* What the MQTT client does with one publish call.
PubOutcomes == {"ok", "raise"}

\* src/defaults.py
DEFAULT_POST_GLOBAL_ERROR == FALSE
DEFAULT_AUTO_RESTART_ON_ERROR == TRUE

\* dict.get(key, default) for a JSON boolean that may be missing (None).
GetOr(value, default) == IF value = None THEN default ELSE value = "true"

\* What ErrorHandler.__init__ reads and is given: the error_handling section
\* (a missing key is None), the errors topic ("" when not configured) and the
\* MQTT manager (not attached before Application.__init__ has created it).
ErrorPolicies ==
    [post_global_errors : {"true", "false", None},
     auto_restart_on_error : {"true", "false", None},
     error_topic : {"errors", ""}, mqtt_manager : {"attached", None}]

\* The manager's connection and what its client does with the publish call.
ErrorEnvs == [connected : BOOLEAN, pub : PubOutcomes]

\* Whether MQTTManager.publish reaches client.publish and that call raises.
PublishRaises(env) == env.connected /\ env.pub = "raise"

\* ErrorHandler.handle_error: what the call has done when it ends.  A raising
\* publish leaves the method at once; power.reboot() does not return.
HandleError(policy, env) ==
    LET attempted == /\ GetOr(policy.post_global_errors, DEFAULT_POST_GLOBAL_ERROR)
                     /\ policy.mqtt_manager # None
                     /\ policy.error_topic # ""
        raised == attempted /\ PublishRaises(env)
        restart == GetOr(policy.auto_restart_on_error, DEFAULT_AUTO_RESTART_ON_ERROR)
    IN  [attempted |-> attempted,
         published |-> attempted /\ env.connected /\ env.pub = "ok",
         raised    |-> raised,
         rebooted  |-> ~raised /\ restart,
         returned  |-> ~raised /\ ~restart]

NotHandled == [called |-> FALSE]

\* No call of handle_error is followed.
InitErrorIdle == handled = NotHandled

\* A handler with any policy, not yet called.
InitError == handled \in {[called |-> FALSE, policy |-> p] : p \in ErrorPolicies}

\* One call of handle_error.
HandleErrorCall(env) ==
    /\ ~handled.called
    /\ handled # NotHandled
    /\ handled' = [called |-> TRUE, policy |-> handled.policy, env |-> env,
                   result |-> HandleError(handled.policy, env)]
    /\ UNCHANGED ledVars
    /\ UNCHANGED sensorVars
    /\ UNCHANGED systemVars
    /\ UNCHANGED wifiVars
    /\ UNCHANGED lifecycleVars
    /\ UNCHANGED loopVars

NextError == \E env \in ErrorEnvs : HandleErrorCall(env)

\* C15: with auto_restart_on_error false handle_error does not reboot and
\* returns to its caller, whatever post_global_errors, the publisher, the
\* topic and the outcome of the publish are.
C15_NoRestartReturns ==
    (handled.called /\ handled.policy.auto_restart_on_error = "false") =>
        /\ ~handled.result.rebooted
        /\ handled.result.returned

\* C16: with auto_restart_on_error enabled every call of handle_error ends in
\* a reboot, also when the publish of the error is attempted and fails.
C16_RestartAlwaysReboots ==
    (handled.called
        /\ GetOr(handled.policy.auto_restart_on_error, DEFAULT_AUTO_RESTART_ON_ERROR)) =>
        handled.result.rebooted

\* C24: handle_error publishes the error payload if and only if
\* post_global_errors is enabled, a publisher is attached and an error topic
\* is configured; otherwise nothing is published and the restart decision is
\* the one the policy gives.
C24_PublishIffConfigured ==
    handled.called =>
        LET configured ==
                /\ GetOr(handled.policy.post_global_errors, DEFAULT_POST_GLOBAL_ERROR)
                /\ handled.policy.mqtt_manager # None
                /\ handled.policy.error_topic # ""
            restart == GetOr(handled.policy.auto_restart_on_error,
                             DEFAULT_AUTO_RESTART_ON_ERROR)
        IN  /\ handled.result.published <=> configured
            /\ ~configured => /\ handled.result.rebooted <=> restart
                              /\ handled.result.returned <=> ~restart

(***************************************************************************)
(* System manager                                                          *)
(*                                                                         *)
(* system.ds, system.wdt  the deep_sleep_interval_s and watchdog_timeout   *)
(*                        entries of SystemManager.system_config           *)
(* system.flag            its enable_factory_reset entry                   *)
(* system.data            the document Config.data holds: the one loaded   *)
(*                        at start (system_config is part of it) or the    *)
(*                        factory default one                              *)
(* system.disk            the configuration file                           *)
(* system.power           "on", "rebooted" (machine.reset) or "exited"     *)
(***************************************************************************)
\* src/defaults.py
DEFAULT_ENABLE_FACTORY_RESET == FALSE

\* parsed_msg.get(...) returning None: the payload has no such field.
NoValue == -1

\* An inbound system message: text that is not JSON, JSON that is not an
\* object, or an object with its command, deep_sleep_interval_s and
\* watchdog_timeout values.
SystemMessage(kind, command, ds, wdt) ==
    [kind |-> kind, command |-> command, ds |-> ds, wdt |-> wdt]

SystemCommands == {"factory_reset", "shutdown", "reboot", "bogus", None}

SystemMessages ==
    {SystemMessage("invalid", None, NoValue, NoValue),
     SystemMessage("nondict", None, NoValue, NoValue)}
        \cup {SystemMessage("dict", c, ds, wdt) :
                  c \in SystemCommands, ds \in {NoValue, 5}, wdt \in {NoValue, 9}}

\* The files during one callback: the save_config call number save_fail
\* raises (0: none), and whether reading the factory default document raises.
SystemEnvs == [save_fail : 0..1, load_fail : BOOLEAN]

\* What Config.save_config writes: Config.data.
SystemDocument(r) ==
    IF r.data = "loaded"
    THEN [doc |-> "loaded", ds |-> r.ds, wdt |-> r.wdt]
    ELSE [doc |-> "default", ds |-> NoValue, wdt |-> NoValue]

\* Config.save_config called by the system manager
SystemSave(r, io) ==
    LET n == r.saves + 1 IN
    IF n = io.save_fail
    THEN [r EXCEPT !.saves = n, !.exc = TRUE]
    ELSE [r EXCEPT !.saves = n, !.disk = SystemDocument(r)]

\* Config.reset_config
ResetConfig(r, io) ==
    IF io.load_fail THEN [r EXCEPT !.exc = TRUE]
    ELSE SystemSave([r EXCEPT !.data = "default"], io)

\* The commands branch of the callback.
SystemCommand_IgnoresPolicy(r, msg, io) ==
    IF msg.command = "factory_reset"
    THEN LET r1 == ResetConfig(r, io) IN
         IF r1.exc THEN r1 ELSE [r1 EXCEPT !.power = "rebooted"]
    ELSE IF msg.command = "shutdown" THEN [r EXCEPT !.power = "exited"]
    ELSE IF msg.command = "reboot" THEN [r EXCEPT !.power = "rebooted"]
    ELSE r

SystemCommand(r, msg, io) ==
    IF msg.command = "factory_reset" /\ GetOr(r.flag, DEFAULT_ENABLE_FACTORY_RESET)
    THEN LET r1 == ResetConfig(r, io) IN
         IF r1.exc THEN r1 ELSE [r1 EXCEPT !.power = "rebooted"]
    ELSE IF msg.command = "shutdown" THEN [r EXCEPT !.power = "exited"]
    ELSE IF msg.command = "reboot" THEN [r EXCEPT !.power = "rebooted"]
    ELSE r

\* The power_config branch of the callback.
PowerConfig(r, msg, io) ==
    LET r1 == IF msg.ds # NoValue THEN [r EXCEPT !.ds = msg.ds] ELSE r
        r2 == IF msg.wdt # NoValue THEN [r1 EXCEPT !.wdt = msg.wdt] ELSE r1
    IN  IF msg.ds # NoValue \/ msg.wdt # NoValue THEN SystemSave(r2, io) ELSE r2

\* `self.error_handler(...)` in the except clause: error_handler is the
\* ErrorHandler object Application.__init__ passes, which is not callable, so
\* the call raises TypeError and handle_error is not run.
CallErrorHandler(r) == [r EXCEPT !.handled = FALSE, !.exc = TRUE]

\* SystemManager._make_cb for a message on `topic`.
SystemCallback(r, topic, msg, io) ==
    LET body == IF msg.kind # "dict" THEN [r EXCEPT !.exc = TRUE]
                ELSE IF topic = "commands" THEN SystemCommand(r, msg, io)
                ELSE PowerConfig(r, msg, io)
    IN  IF body.exc
        THEN CallErrorHandler([body EXCEPT !.raised = TRUE, !.exc = FALSE])
        ELSE body

NoSystemLast ==
    [topic |-> None, msg |-> SystemMessage("invalid", None, NoValue, NoValue),
     raised |-> FALSE, handled |-> FALSE, escaped |-> FALSE, saves |-> 0]

SystemStart(flag) ==
    [flag |-> flag, ds |-> 15, wdt |-> 8, data |-> "loaded",
     disk |-> [doc |-> "loaded", ds |-> 15, wdt |-> 8],
     power |-> "on", last |-> NoSystemLast]

\* No system message is followed.
InitSystemIdle == system = SystemStart(None)

\* A system manager with any enable_factory_reset setting.
InitSystem == system \in {SystemStart(flag) : flag \in {"true", "false", None}}

\* MQTTManager._message_router handing a system message to the callback; an
\* exception leaving the callback is logged there.
SystemDeliver(topic, msg, io) ==
    /\ system.power = "on"
    /\ LET r0 == [flag |-> system.flag, ds |-> system.ds, wdt |-> system.wdt,
                  data |-> system.data, disk |-> system.disk, power |-> system.power,
                  saves |-> 0, raised |-> FALSE, handled |-> FALSE, exc |-> FALSE]
           r == SystemCallback(r0, topic, msg, io)
       IN  system' = [flag |-> r.flag, ds |-> r.ds, wdt |-> r.wdt, data |-> r.data,
                      disk |-> r.disk, power |-> r.power,
                      last |-> [topic |-> topic, msg |-> msg, raised |-> r.raised,
                                handled |-> r.handled, escaped |-> r.exc,
                                saves |-> r.saves]]
    /\ UNCHANGED ledVars
    /\ UNCHANGED sensorVars
    /\ UNCHANGED errorVars
    /\ UNCHANGED wifiVars
    /\ UNCHANGED lifecycleVars
    /\ UNCHANGED loopVars

NextSystem ==
    \E topic \in {"commands", "power_config"}, msg \in SystemMessages, io \in SystemEnvs :
        SystemDeliver(topic, msg, io)

\* C19: when the processing of a system commands or power_config message
\* raises, the callback catches the exception, handle_error is called with
\* it, and no exception leaves the callback.
C19_SystemCallbackHandlesErrors ==
    system.last.raised => (system.last.handled /\ ~system.last.escaped)

\* The configuration in memory and in the file, and the power state.
SystemConfiguration(sys) ==
    [ds |-> sys.ds, wdt |-> sys.wdt, data |-> sys.data, disk |-> sys.disk,
     flag |-> sys.flag, power |-> sys.power]

\* C25: a system factory_reset command replaces the configuration by the
\* factory default document, persists it and then reboots when factory reset
\* is enabled; when it is disabled or the flag is absent nothing changes and
\* there is no reboot; when reloading or persisting fails there is no reboot.
C25_FactoryResetByPolicy ==
    [][\A msg \in SystemMessages, io \in SystemEnvs :
          (SystemDeliver("commands", msg, io)
              /\ msg.kind = "dict" /\ msg.command = "factory_reset")
          => IF GetOr(system.flag, DEFAULT_ENABLE_FACTORY_RESET)
             THEN IF system'.last.raised
                  THEN system'.power = "on"
                  ELSE /\ system'.data = "default"
                       /\ system'.disk = SystemDocument(system')
                       /\ system'.disk.doc = "default"
                       /\ system'.power = "rebooted"
             ELSE SystemConfiguration(system') = SystemConfiguration(system)]_vars

\* An enabled factory reset has replaced the file and rebooted the device.
C25_Witness ==
    /\ system.last.topic = "commands"
    /\ system.last.msg.command = "factory_reset"
    /\ system.flag = "true"
    /\ system.disk.doc = "default"
    /\ system.power = "rebooted"

\* C26: a power_config message writes deep_sleep_interval_s and
\* watchdog_timeout into the system configuration exactly for the fields of
\* the payload, persists once if a field was present and not at all otherwise,
\* and leaves every other value of the configuration, in memory and in the
\* file (the error policy among them), as it was.
C26_PowerConfigPatchesOnlyItsFields ==
    [][\A msg \in SystemMessages, io \in SystemEnvs :
          (SystemDeliver("power_config", msg, io) /\ msg.kind = "dict")
          => LET present == msg.ds # NoValue \/ msg.wdt # NoValue IN
             /\ system'.ds = IF msg.ds # NoValue THEN msg.ds ELSE system.ds
             /\ system'.wdt = IF msg.wdt # NoValue THEN msg.wdt ELSE system.wdt
             /\ system'.last.saves = IF present THEN 1 ELSE 0
             /\ system'.flag = system.flag
             /\ system'.data = system.data
             /\ system'.power = system.power
             /\ system'.disk.doc = system.disk.doc
             /\ (present /\ ~system'.last.raised)
                    => /\ system'.disk.ds = system'.ds
                       /\ system'.disk.wdt = system'.wdt
             /\ ~present => system'.disk = system.disk]_vars

\* C27: after a mutating operation that completes without an I/O failure
\* (here: a power_config patch) the persisted configuration equals the
\* configuration in memory.
C27_PersistedEqualsMemory ==
    (system.last.topic = "power_config" /\ system.last.saves = 1 /\ ~system.last.raised)
        => /\ system.disk.ds = system.ds
           /\ system.disk.wdt = system.wdt

(***************************************************************************)
(* Lifecycle and state manager                                             *)
(*                                                                         *)
(* lifecycle.current_state  Lifecycle.current_state                        *)
(* lifecycle.sm_state       StateManager.current_state                     *)
(* lifecycle.topic          StateManager.publish_state_topic               *)
(* lifecycle.published      the states whose payload reached the broker    *)
(* lifecycle.n              calls of transition_to so far                  *)
(* lifecycle.last           the record of the last transition_to           *)
(***************************************************************************)
StateEnvs == [connected : BOOLEAN, pub : PubOutcomes]

NoTransition ==
    [target |-> None, from |-> None, calls |-> 0, indicated |-> None,
     connected |-> FALSE, sent |-> 0, returned |-> FALSE]

\* StateManager.handle_state_change(new_state); `led` tells how
\* indicate_state(new_state) ended.
HandleStateChange(lc, new_state, env, led) ==
    LET lc1 == [lc EXCEPT !.sm_state = new_state, !.last.calls = @ + 1,
                          !.last.indicated = new_state]
    IN  IF led = "raised" THEN lc1
        ELSE IF lc.topic # None /\ env.connected
        THEN IF env.pub = "ok"
             THEN [lc1 EXCEPT !.published = Append(@, new_state),
                              !.last.sent = @ + 1, !.last.returned = TRUE]
             ELSE lc1
        ELSE [lc1 EXCEPT !.last.returned = TRUE]

\* Lifecycle.transition_to(new_state)
TransitionTo_Guarded(lc, new_state, env, led) ==
    HandleStateChange(
        [lc EXCEPT !.current_state = IF @ = "GLOBAL_ERROR" THEN @ ELSE new_state,
                   !.n = @ + 1,
                   !.last = [NoTransition EXCEPT !.target = new_state,
                                                 !.from = lc.current_state,
                                                 !.connected = env.connected]],
        new_state, env, led)

TransitionTo(lc, new_state, env, led) ==
    HandleStateChange(
        [lc EXCEPT !.current_state = new_state,
                   !.n = @ + 1,
                   !.last = [NoTransition EXCEPT !.target = new_state,
                                                 !.from = lc.current_state,
                                                 !.connected = env.connected]],
        new_state, env, led)

LifecycleStart(topic) ==
    [current_state |-> "INACTIVE", sm_state |-> "INACTIVE", topic |-> topic,
     published |-> <<>>, n |-> 0, last |-> NoTransition]

\* The lifecycle is not followed.
InitLifecycleIdle == lifecycle = LifecycleStart(None)

\* A lifecycle with or without a state topic.
InitLifecycle == lifecycle \in {LifecycleStart(topic) : topic \in {"state", None}}

\* A call of lifecycle.transition_to(new_state) by the main task.
TransitionToCall(new_state, env) ==
    /\ lifecycle.n < MaxTransitions
    /\ Indicate(new_state)
    /\ lifecycle' = TransitionTo(lifecycle, new_state, env, indicate_result')
    /\ UNCHANGED sensorVars
    /\ UNCHANGED errorVars
    /\ UNCHANGED systemVars
    /\ UNCHANGED wifiVars
    /\ UNCHANGED loopVars

NextLifecycle ==
    \E new_state \in DeviceStates, env \in StateEnvs : TransitionToCall(new_state, env)

\* C22: transition_to(s) is accepted from every state for every target s:
\* when it has returned, the lifecycle's state is s and handle_state_change(s)
\* has been invoked exactly once within the call.
C22_TransitionUnconditional ==
    lifecycle.last.returned =>
        /\ lifecycle.current_state = lifecycle.last.target
        /\ lifecycle.sm_state = lifecycle.last.target
        /\ lifecycle.last.calls = 1
        /\ lifecycle.last.indicated = lifecycle.last.target

\* A transition out of GLOBAL_ERROR has returned.
C22_Witness ==
    /\ lifecycle.last.returned
    /\ lifecycle.last.from = "GLOBAL_ERROR"
    /\ lifecycle.last.target = "ACTIVE"
    /\ lifecycle.current_state = "ACTIVE"

\* C23: handle_state_change(s) publishes {state: s} exactly once when a state
\* topic is configured and the link reports connected, and nothing otherwise
\* (a dropped update is not published later); the indicator is asked to
\* animate s in both cases.
C23_StatePublishedOnceIfConnected ==
    [][\A new_state \in DeviceStates, env \in StateEnvs :
          TransitionToCall(new_state, env) =>
              /\ lifecycle'.last.indicated = new_state
              /\ lifecycle'.published =
                     IF lifecycle.topic # None /\ env.connected
                     THEN Append(lifecycle.published, new_state)
                     ELSE lifecycle.published]_vars

(***************************************************************************)
(* Wi-Fi manager and the run loop                                          *)
(*                                                                         *)
(* wifi.cfg      ssid/password present, and the reconnect strategy         *)
(* wifi.policy   the error handling policy of the device                   *)
(* wifi.link     station.isconnected()                                     *)
(* wifi.mqtt     MQTTManager.connected                                     *)
(* wifi.pc       where the device stands: "startup" (before run's first    *)
(*               statement), "connecting" (in a time.sleep of connect),    *)
(*               "mqtt" (before mqtt_manager.connect), "system" (before    *)
(*               system_manager.initialize), "sensors" (before             *)
(*               initialize_sensors), "activate" (before the ACTIVE        *)
(*               transition), "loop" (top of the main loop), "messages"    *)
(*               (before check_messages), "reset" (machine.reset), "exit"          *)
(*               (sys.exit), "stopped" (run returned after handle_error),  *)
(*               "crashed" (an exception left run)                         *)
(* wifi.caller   who called connect: "startup" or "loop"                   *)
(* wifi.attempt  the loop variable of connect; wifi.waits: its sleeps      *)
(* wifi.outcome  how the last connect ended                                *)
(* wifi.passes   completed passes of the main loop                         *)
(* wifi.handled  calls of handle_error by Application.run                  *)
(* wifi.wdt      Watchdog.watchdog_timeout in ms (0: watchdog disabled)    *)
(* wifi.since    seconds since the watchdog was started or last fed        *)
(* wifi.feeds    calls of watchdog.feed() so far                           *)
(* wifi.lc       the Lifecycle and its StateManager                        *)
(* wifi.states   the values Lifecycle.current_state has taken, in order    *)
(* wifi.steps    the calls of _initialize_system that returned, in order   *)
(***************************************************************************)
\* src/defaults.py
DEFAULT_WAIT_TIME_AFTER_STARTUP == 3

\* `await asyncio.sleep(10)` at the end of an iteration of the main loop
LoopSleep == 10

\* system.watchdog_timeout values: disabled, shorter than the loop's sleep,
\* longer than it, and longer than an iteration with a full reconnect.
WatchdogTimeouts == {0, 8000, 12000, 30000}

\* The hardware watchdog has expired: the platform resets the device.
Bitten(w) == w.wdt > 0 /\ w.since * 1000 > w.wdt

\* `seconds` pass without a feed.
Elapse(w, seconds) ==
    IF w.wdt > 0
    THEN LET w1 == [w EXCEPT !.since = @ + seconds] IN
         IF Bitten(w1) THEN [w1 EXCEPT !.pc = "reset"] ELSE w1
    ELSE w

\* Watchdog.feed
Feed(w) == [w EXCEPT !.since = 0, !.feeds = @ + 1]

WifiConfigs ==
    [creds : BOOLEAN, max_retries : -1..MaxRetries, interval_seconds : {0, 5},
     failure_action : {"restart", "shutdown", "continue", "bogus", None}]

\* The error policies followed here: nothing is posted.
WifiPolicies == {p \in ErrorPolicies : /\ p.post_global_errors = None
                                       /\ p.error_topic = "errors"
                                       /\ p.mqtt_manager = "attached"}

\* A run loop whose except clause is inside the loop: after handle_error
\* returns the next iteration starts.
RunExcept_RetriesInPlace(w) ==
    LET h == HandleError(w.policy, [connected |-> w.mqtt, pub |-> "ok"]) IN
    [w EXCEPT !.handled = @ + 1,
              !.pc = IF h.rebooted THEN "reset"
                     ELSE IF h.returned THEN "loop" ELSE "crashed"]

\* A handle_error that moves the lifecycle to GLOBAL_ERROR before it acts.
RunExcept_EntersGlobalError(w) ==
    LET h == HandleError(w.policy, [connected |-> w.mqtt, pub |-> "ok"]) IN
    [w EXCEPT !.handled = @ + 1,
              !.lc.current_state = "GLOBAL_ERROR",
              !.states = Append(@, "GLOBAL_ERROR"),
              !.pc = IF h.rebooted THEN "reset"
                     ELSE IF h.returned THEN "stopped" ELSE "crashed"]

\* The except clause of Application.run: handle_error, then run returns.
RunExcept(w) ==
    LET h == HandleError(w.policy, [connected |-> w.mqtt, pub |-> "ok"]) IN
    [w EXCEPT !.handled = @ + 1,
              !.pc = IF h.rebooted THEN "reset"
                     ELSE IF h.returned THEN "stopped" ELSE "crashed"]

\* connect returns to its caller.
WifiReturn(w, outcome) ==
    [w EXCEPT !.outcome = outcome,
              !.pc = IF w.caller = "startup" THEN "mqtt" ELSE "messages",
              !.steps = IF w.caller = "startup" THEN Append(@, "wifi_manager.connect")
                        ELSE @]

\* A bare `raise` in connect: the exception reaches Application.run.
WifiRaise(w) == RunExcept([w EXCEPT !.outcome = "raised"])

\* The end of connect, after the for loop.
FailureAction(w) ==
    LET action == IF w.cfg.failure_action = None THEN "restart"
                  ELSE w.cfg.failure_action
    IN  IF action = "restart" THEN [w EXCEPT !.outcome = "reset", !.pc = "reset"]
        ELSE IF action = "shutdown" THEN [w EXCEPT !.outcome = "exit", !.pc = "exit"]
        ELSE WifiReturn(w, "unconnected")

\* WiFiManager.connect up to its first time.sleep.
Connect(w, caller) ==
    LET w0 == [w EXCEPT !.caller = caller, !.attempt = 0, !.waits = 0,
                        !.outcome = None]
        max_retries == w.cfg.max_retries
        interval == w.cfg.interval_seconds
    IN  IF ~w.cfg.creds THEN WifiRaise(w0)
        ELSE IF (max_retries = 0 \/ interval = 0) /\ (max_retries < 0 \/ interval < 0)
        THEN WifiRaise(w0)
        ELSE IF 0 < max_retries
        THEN IF w0.link THEN WifiReturn(w0, "connected")
             ELSE [w0 EXCEPT !.pc = "connecting"]
        ELSE FailureAction(w0)

\* connect giving up after its first wait.
Wake_GivesUpAfterOneWait(w, link) ==
    LET w0 == Elapse(w, w.cfg.interval_seconds)
        w1 == [w0 EXCEPT !.link = link, !.attempt = @ + 1, !.waits = @ + 1]
    IN  IF Bitten(w0) THEN w0
        ELSE IF w1.link THEN WifiReturn(w1, "connected") ELSE FailureAction(w1)

\* WiFiManager.connect from the end of a time.sleep, during which the link
\* became `link`, to the next time.sleep or to its end.
Wake(w, link) ==
    LET w0 == Elapse(w, w.cfg.interval_seconds)
        w1 == [w0 EXCEPT !.link = link, !.attempt = @ + 1, !.waits = @ + 1]
    IN  IF Bitten(w0) THEN w0
        ELSE IF w1.attempt < w1.cfg.max_retries
        THEN IF w1.link THEN WifiReturn(w1, "connected") ELSE w1
        ELSE FailureAction(w1)

\* A device whose MQTT manager reports connected from its construction.
WifiStart_ConnectedAtBoot(cfg, policy, link, wdt, topic) ==
    [cfg |-> cfg, policy |-> policy, link |-> link, mqtt |-> TRUE,
     pc |-> "startup", caller |-> "startup", attempt |-> 0, waits |-> 0,
     outcome |-> None, passes |-> 0, handled |-> 0,
     wdt |-> wdt, since |-> 0, feeds |-> 0,
     lc |-> LifecycleStart(topic), states |-> <<"INACTIVE">>, steps |-> <<>>]

\* Application.__init__: MQTTManager.connected = False, Lifecycle in INACTIVE
WifiStart(cfg, policy, link, wdt, topic) ==
    [cfg |-> cfg, policy |-> policy, link |-> link, mqtt |-> FALSE,
     pc |-> "startup", caller |-> "startup", attempt |-> 0, waits |-> 0,
     outcome |-> None, passes |-> 0, handled |-> 0,
     wdt |-> wdt, since |-> 0, feeds |-> 0,
     lc |-> LifecycleStart(topic), states |-> <<"INACTIVE">>, steps |-> <<>>]

\* The Wi-Fi manager is not followed.
InitWifiIdle ==
    wifi = WifiStart([creds |-> TRUE, max_retries |-> 1, interval_seconds |-> 5,
                      failure_action |-> None],
                     [post_global_errors |-> None, auto_restart_on_error |-> None,
                      error_topic |-> "errors", mqtt_manager |-> "attached"], TRUE, 0,
                     None)

\* A device with any Wi-Fi configuration and error policy, before startup.
InitWifi ==
    wifi \in {WifiStart(cfg, policy, link, wdt, topic) :
                 cfg \in WifiConfigs, policy \in WifiPolicies, link \in BOOLEAN,
                 wdt \in WatchdogTimeouts, topic \in {"state", None}}

WifiStep(w) ==
    /\ wifi' = w
    /\ UNCHANGED ledVars
    /\ UNCHANGED sensorVars
    /\ UNCHANGED errorVars
    /\ UNCHANGED systemVars
    /\ UNCHANGED lifecycleVars
    /\ UNCHANGED loopVars

\* How indicate_state can end for the main task: an animation is started, or
\* the LED configuration makes it raise.
RunLedOutcomes == {"started", "raised"}

\* self.lifecycle.transition_to(new_state) in Application.run; an exception
\* of the indicator or of the publish reaches run's except clause.
RunTransition(w, new_state, led, pub) ==
    LET lc == TransitionTo(w.lc, new_state, [connected |-> w.mqtt, pub |-> pub], led)
        w1 == [w EXCEPT !.lc = lc, !.states = Append(@, lc.current_state)]
    IN  IF lc.last.returned THEN w1 ELSE RunExcept(w1)

\* Application.run up to the first wait of _initialize_system: the STARTUP
\* transition, the sleep after it, then self.wifi_manager.connect()
StartupConnect(led, pub) ==
    /\ wifi.pc = "startup"
    /\ LET w0 == RunTransition(wifi, "STARTUP", led, pub)
           w == Elapse(w0, DEFAULT_WAIT_TIME_AFTER_STARTUP)
       IN  WifiStep(IF w0.pc # "startup" THEN w0
                    ELSE IF Bitten(w) THEN w ELSE Connect(w, "startup"))

\* The end of one time.sleep(interval) in connect.
ConnectWake(link) ==
    /\ wifi.pc = "connecting"
    /\ WifiStep(Wake(wifi, link))

\* Application._initialize_system after connect: mqtt_manager.connect(),
\* which cannot succeed without the link and re-raises its failure.
MqttConnect(ok) ==
    /\ wifi.pc = "mqtt"
    /\ WifiStep(IF wifi.link /\ ok
                THEN [wifi EXCEPT !.mqtt = TRUE, !.pc = "system",
                                  !.steps = Append(@, "mqtt_manager.connect")]
                ELSE RunExcept(wifi))

\* Application._initialize_system: system_manager.initialize(), whose
\* subscriptions re-raise a failure of the client.
SystemInitialize(ok) ==
    /\ wifi.pc = "system"
    /\ WifiStep(IF ok
                THEN [wifi EXCEPT !.pc = "sensors",
                                  !.steps = Append(@, "system_manager.initialize")]
                ELSE RunExcept(wifi))

\* Application._initialize_system: sensor_manager.initialize_sensors(), which
\* hands the failure of a sensor to handle_error and goes on with the next
\* sensor when that returns.
SensorsInitialize(fault) ==
    /\ wifi.pc = "sensors"
    /\ LET h == HandleError(wifi.policy, [connected |-> wifi.mqtt, pub |-> "ok"])
           w == [wifi EXCEPT !.pc = "activate",
                             !.steps = Append(@, "sensor_manager.initialize_sensors")]
       IN  WifiStep(IF ~fault \/ h.returned THEN w
                    ELSE IF h.rebooted THEN [wifi EXCEPT !.pc = "reset"]
                    ELSE RunExcept(wifi))

\* Application.run after _initialize_system: the ACTIVE transition, then the
\* main loop is entered.
Activate(led, pub) ==
    /\ wifi.pc = "activate"
    /\ LET w == RunTransition(wifi, "ACTIVE", led, pub) IN
       WifiStep(IF w.pc # "activate" THEN w ELSE [w EXCEPT !.pc = "loop"])

\* The main loop: watchdog.feed(), wifi_manager.check_connection()
CheckConnection ==
    /\ wifi.pc = "loop"
    /\ wifi.passes < MaxPasses
    /\ LET w == Feed(wifi) IN
       WifiStep(IF w.link THEN [w EXCEPT !.pc = "messages"]
                ELSE Connect(w, "loop"))

\* The main loop: mqtt_manager.check_messages(), update_sensors() and
\* asyncio.sleep(10), during which the link becomes `link`.
CheckMessages(ok, link) ==
    /\ wifi.pc = "messages"
    /\ WifiStep(IF wifi.mqtt /\ ~ok THEN RunExcept([wifi EXCEPT !.mqtt = FALSE])
                ELSE LET w == Elapse(wifi, LoopSleep) IN
                     IF Bitten(w) THEN w
                     ELSE [w EXCEPT !.pc = "loop", !.link = link, !.passes = @ + 1])

NextWifi ==
    \/ \E led \in RunLedOutcomes, pub \in PubOutcomes : StartupConnect(led, pub)
    \/ \E link \in BOOLEAN : ConnectWake(link)
    \/ \E ok \in BOOLEAN : MqttConnect(ok)
    \/ \E ok \in BOOLEAN : SystemInitialize(ok)
    \/ \E fault \in BOOLEAN : SensorsInitialize(fault)
    \/ \E led \in RunLedOutcomes, pub \in PubOutcomes : Activate(led, pub)
    \/ CheckConnection
    \/ \E ok \in BOOLEAN, link \in BOOLEAN : CheckMessages(ok, link)

\* C31: an exception that escapes the startup sequence or an iteration of the
\* main loop is handed once to handle_error, and that run starts no further
\* iteration: after handle_error has returned it feeds no watchdog, polls no
\* network and ticks no sensor (in every state after the call the run is over).
C31_NoRetryInPlace ==
    /\ wifi.handled <= 1
    /\ wifi.handled = 1 => wifi.pc \in {"reset", "stopped", "crashed"}

\* check_msg raised in the second pass of a device that does not auto-restart:
\* handle_error returned and the run ended.
C31_Witness ==
    /\ wifi.handled = 1
    /\ wifi.pc = "stopped"
    /\ wifi.policy.auto_restart_on_error = "false"
    /\ wifi.passes >= 1

\* C32: in steady state the time between two consecutive watchdog feeds
\* never exceeds the configured timeout window, with the loop's sleep and the
\* waits of a reconnect inside an iteration.
C32_FedWithinWindow ==
    (wifi.feeds >= 1 /\ wifi.wdt > 0) => wifi.since * 1000 <= wifi.wdt

StartupOrder ==
    <<"wifi_manager.connect", "mqtt_manager.connect", "system_manager.initialize",
      "sensor_manager.initialize_sensors">>

\* C35: the transition to Active happens only after Wi-Fi connect, MQTT
\* connect, the system-topic subscription and the sensor initialization have
\* all returned, in that order; and the Startup state is never published,
\* because the MQTT manager is not connected when Startup is entered.
C35_ActiveAfterStartupSequence ==
    /\ IsPrefix(wifi.steps, StartupOrder)
    /\ wifi.lc.current_state = "ACTIVE" => wifi.steps = StartupOrder
    /\ \A i \in 1..Len(wifi.lc.published) : wifi.lc.published[i] # "STARTUP"
    /\ wifi.lc.n >= 1 => (wifi.lc.last.target = "STARTUP" => ~wifi.lc.last.connected)

\* A device with a state topic went through the whole startup and published
\* Active, and nothing before it.
C35_Witness ==
    /\ wifi.lc.topic = "state"
    /\ wifi.lc.current_state = "ACTIVE"
    /\ wifi.lc.published = <<"ACTIVE">>
    /\ wifi.steps = StartupOrder
    /\ wifi.pc = "loop"

\* C38: connect takes the failure action only if the station is not connected
\* when the retries are exhausted: a station that became connected during a
\* wait of the retry sequence, the last one included, is never reset or
\* exited.
C38_FailureActionOnlyIfUnconnected ==
    (wifi.outcome \in {"reset", "exit"} /\ wifi.waits >= 1) => ~wifi.link

\* The last connect call has ended (wifi.outcome tells how).
ConnectEnded == wifi.outcome # None

\* What holds of every ended connect call: at most max_retries waits; a
\* connected return only with the link up; the fallback action only after all
\* attempts, and the one the configuration names (restart being the default,
\* any other value than restart and shutdown continuing).
ConnectRetriesThenFallback ==
    LET max_retries == IF wifi.cfg.max_retries > 0 THEN wifi.cfg.max_retries ELSE 0
        action == wifi.cfg.failure_action
    IN  /\ wifi.waits <= max_retries
        /\ (wifi.outcome = "connected" /\ wifi.pc \in {"mqtt", "messages"}) => wifi.link
        /\ wifi.outcome = "connected" => wifi.attempt < max_retries
        /\ wifi.outcome \in {"reset", "exit", "unconnected"} =>
                /\ wifi.attempt >= wifi.cfg.max_retries
                /\ wifi.waits = max_retries
        /\ wifi.outcome = "reset" <=>
                (wifi.outcome \notin {"connected", "raised"} /\ action \in {"restart", None})
        /\ wifi.outcome = "exit" <=>
                (wifi.outcome \notin {"connected", "raised"} /\ action = "shutdown")
        /\ wifi.outcome = "reset" => wifi.pc = "reset"
        /\ wifi.outcome = "exit" => wifi.pc = "exit"
        /\ wifi.outcome \in {"connected", "unconnected"} => wifi.pc \notin {"exit", "connecting"}

\* C30 as stated: connect always ends, after at most max_retries waits, in one
\* of four outcomes: connected, reset, exit, or return without connectivity;
\* the fallback action is taken only after all attempts.
C30_ConnectFourOutcomes ==
    ConnectEnded =>
        /\ wifi.outcome \in {"connected", "reset", "exit", "unconnected"}
        /\ ConnectRetriesThenFallback

\* C30: the same, with the fifth outcome the code has: connect raises, before
\* any wait, exactly when the SSID or the password is missing or the
\* reconnect strategy is refused.
C30_ConnectOutcomes ==
    ConnectEnded =>
        LET refused == /\ wifi.cfg.max_retries = 0 \/ wifi.cfg.interval_seconds = 0
                       /\ wifi.cfg.max_retries < 0 \/ wifi.cfg.interval_seconds < 0
        IN  /\ wifi.outcome \in {"connected", "reset", "exit", "unconnected", "raised"}
            /\ wifi.outcome = "raised" <=> (~wifi.cfg.creds \/ refused)
            /\ wifi.outcome = "raised" => wifi.waits = 0
            /\ ConnectRetriesThenFallback

\* The default action after two fruitless waits: the device is reset.
C30_Witness ==
    /\ wifi.outcome = "reset"
    /\ wifi.cfg.failure_action = None
    /\ wifi.cfg.max_retries = MaxRetries
    /\ wifi.waits = MaxRetries

\* C20: when the connection fails after max_retries attempts and
\* failure_action is "continue", connect returns normally, the device is
\* neither reset nor exited, and the run loop keeps executing.
C20_ContinueKeepsRunning ==
    LET exhausted == /\ wifi.cfg.max_retries > 0
                     /\ wifi.waits = wifi.cfg.max_retries
                     /\ wifi.outcome = "unconnected"
                     /\ ~wifi.link
    IN  (exhausted /\ wifi.cfg.failure_action = "continue")
            => wifi.pc \in {"mqtt", "messages", "loop"}

(***************************************************************************)
(* Sensor scheduler: configuration                                         *)
(***************************************************************************)
\* src/sensors/sensor_state.py
ACTIVE == "ACTIVE"
DISABLED == "DISABLED"
ERROR == "ERROR"
SensorStates == {ACTIVE, DISABLED, ERROR}

\* src/defaults.py
DEFAULT_UPDATE_SENSOR_INTERVAL == 60

\* The "sensors" list of the configuration, in its order.
\*   s1: report_interval and unit editable; defaults for report_interval and
\*       for a key that is not editable; every publish topic; both subscribe
\*       topics; self_test not permitted.
\*   s2: nothing editable (the report interval falls back to the default), no
\*       defaults, no "errors" publish topic; both subscribe topics.
SensorIds == <<"s1", "s2">>

\* The order in which `self.sensors.items()` yields the sensors: that of a
\* MicroPython dict, which is not the order of insertion.
UpdateOrder == <<"s2", "s1">>

SensorIdSet == {SensorIds[k] : k \in 1..Len(SensorIds)}

sensors_config ==
    [sid \in SensorIdSet |->
        IF sid = "s1"
        THEN [editable |-> [report_interval |-> 1, unit |-> 0],
              defaults |-> <<<<"report_interval", 2>>, <<"legacy", 7>>>>,
              control  |-> {"enable", "disable", "factory_reset", "calibrate"},
              publish  |-> {"state", "data", "errors", "info"},
              subscribe |-> {"commands", "config"}]
        ELSE [editable |-> <<>>,
              defaults |-> <<>>,
              control  |-> {"enable", "disable", "self_test", "factory_reset"},
              publish  |-> {"state", "data", "info"},
              subscribe |-> {"commands", "config"}]]

\* The keys of BaseSensor.process_command's command_map.
command_map == {"enable", "disable", "self_test", "factory_reset"}

(***************************************************************************)
(* Sensor scheduler: inputs                                                *)
(***************************************************************************)
\* What the outside does during the poll of one sensor: the outcome of each
\* publish call by its place in the code, and of the driver's read_values.
PollEnvs ==
    [state_pub : PubOutcomes, read : {"data", "empty", "raise"}, data_pub : PubOutcomes,
     err_pub : PubOutcomes, err_state_pub : PubOutcomes]

\* The same, as far as the poll consults it: nothing after the first failure
\* but the error handler's two publishes.
PollEnvsUsed ==
    {e \in PollEnvs :
        /\ e.state_pub = "raise" => e.read = "data"
        /\ e.read # "data" => e.data_pub = "ok"
        /\ (e.state_pub = "ok" /\ e.read # "raise" /\ e.data_pub = "ok")
              => (e.err_pub = "ok" /\ e.err_state_pub = "ok")
        /\ e.err_pub = "raise" => e.err_state_pub = "ok"}

\* The same for sensor sid: without an errors topic publish_error sends nothing.
PollEnvsOf(sid) ==
    {e \in PollEnvsUsed : "errors" \notin sensors_config[sid].publish => e.err_pub = "ok"}

\* No publish call and no read fails.
AllOk ==
    [state_pub |-> "ok", read |-> "data", data_pub |-> "ok", err_pub |-> "ok",
     err_state_pub |-> "ok"]

\* The outcomes a callback consults: it reads no sensor and publishes no data.
CallbackEnvs ==
    {e \in PollEnvs : /\ e.read = "data" /\ e.data_pub = "ok"
                       /\ e.err_pub = "raise" => e.err_state_pub = "ok"}

\* The configuration store during one handler is `io`: the number of the
\* save_config call that raises OSError (0: none does).  The file is then left
\* as it was.

\* Keys and values a configuration message may carry.
ConfigKeys == {"report_interval", "unit", "bogus"}

ConfigValues(key) == IF key = "report_interval" THEN {-1, 0, 2} ELSE {1}

\* A JSON object as the sequence of its (key, value) pairs, keys distinct.
Payloads ==
    UNION {{p \in [1..n -> {<<k, v>> : k \in ConfigKeys, v \in {-1, 0, 1, 2}}] :
                /\ \A a \in 1..n : p[a][2] \in ConfigValues(p[a][1])
                /\ \A a, b \in 1..n : a # b => p[a][1] # p[b][1]} : n \in 0..MaxKeys}

HasKey(p, key) == \E a \in 1..Len(p) : p[a][1] = key

ValueOf(p, key) == p[CHOOSE a \in 1..Len(p) : p[a][1] = key][2]

(***************************************************************************)
(* Sensor scheduler: BaseSensor                                            *)
(*                                                                         *)
(* The operators work on a world w:                                        *)
(*   sensors, params, next, disk   the fields of the same name             *)
(*   pubs    the messages handed to the broker, in order                   *)
(*   saves   the save_config calls made                                    *)
(*   polled  the sensors whose poll was begun (publish_state called)       *)
(*   failed  the sensors handed to _error_handler                          *)
(*   ran     the command_map entries process_command has called            *)
(*   exc     an exception is propagating                                   *)
(***************************************************************************)
Msg(sid, topic, keys, state) == [sid |-> sid, topic |-> topic, keys |-> keys, state |-> state]

\* MQTTManager.publish on one of the sensor's publish topics (the manager is
\* connected whenever the scheduler runs); without the topic nothing is sent.
Publish(w, sid, topic, keys, state, outcome) ==
    IF topic \notin sensors_config[sid].publish THEN w
    ELSE IF outcome = "raise" THEN [w EXCEPT !.exc = TRUE]
    ELSE [w EXCEPT !.pubs = Append(@, Msg(sid, topic, keys, state))]

\* _can_publish without its test of the sensor's state.
CanPublish_AnyState(w, sid, nonempty) == nonempty

\* BaseSensor._can_publish: `self.enabled` is a bound method, hence true.
CanPublish(w, sid, nonempty) == nonempty /\ w.sensors[sid].state = ACTIVE

\* BaseSensor.publish_state
PublishState(w, sid, outcome) ==
    Publish(w, sid, "state", {"state"}, w.sensors[sid].state, outcome)

\* BaseSensor.publish_data
PublishData(w, sid, outcome) ==
    IF ~CanPublish(w, sid, TRUE) THEN w
    ELSE Publish(w, sid, "data", {"data"}, "-", outcome)

\* BaseSensor.publish_error with the payload {timestamp, error}
PublishError(w, sid, outcome) ==
    IF ~CanPublish(w, sid, TRUE) THEN w
    ELSE Publish(w, sid, "errors", {"timestamp", "error"}, "-", outcome)

\* BaseSensor.error
SensorError(w, sid, outcome) ==
    PublishState([w EXCEPT !.sensors[sid].state = ERROR], sid, outcome)

\* enable without its test of the current state.
Enable_FromAnyState(w, sid, outcome) ==
    PublishState([w EXCEPT !.sensors[sid].state = ACTIVE], sid, outcome)

\* BaseSensor.enable
Enable(w, sid, outcome) ==
    IF w.sensors[sid].state = DISABLED
    THEN PublishState([w EXCEPT !.sensors[sid].state = ACTIVE], sid, outcome)
    ELSE w

\* BaseSensor.disable
Disable(w, sid, outcome) ==
    IF w.sensors[sid].state = ACTIVE
    THEN PublishState([w EXCEPT !.sensors[sid].state = DISABLED], sid, outcome)
    ELSE w

\* Config.save_config: the file is rewritten from Config.data.
SaveConfig(w, io) ==
    LET n == w.saves + 1
        w1 == [w EXCEPT !.saves = n]
    IN  IF n # io
        THEN [w1 EXCEPT !.disk = w.params]
        ELSE [w1 EXCEPT !.exc = TRUE]

\* update_parameter persisting on every call, whatever the key.
UpdateParameter_SavesAnyKey(w, sid, key, value, io) ==
    IF key \in DOMAIN w.params[sid]
    THEN SaveConfig([w EXCEPT !.params[sid][key] = value], io)
    ELSE SaveConfig(w, io)

\* update_parameter storing a key it does not know as a new editable key.
UpdateParameter_AddsKey(w, sid, key, value, io) ==
    LET editable == w.params[sid] IN
    SaveConfig([w EXCEPT !.params[sid] =
                    [k \in DOMAIN editable \cup {key} |->
                        IF k = key THEN value ELSE editable[k]]], io)

\* BaseSensor.update_parameter
UpdateParameter(w, sid, key, value, io) ==
    IF key \in DOMAIN w.params[sid]
    THEN SaveConfig([w EXCEPT !.params[sid][key] = value], io)
    ELSE w

\* The loop body writing the default without the save_config call.
ResetKey_Unsaved(w, sid, k, default_val, io) ==
    IF k \in DOMAIN w.params[sid]
    THEN [w EXCEPT !.params[sid][k] = default_val]
    ELSE w

\* The body of _do_factory_reset's loop for the default (k, default_val).
ResetKey(w, sid, k, default_val, io) ==
    IF k \in DOMAIN w.params[sid]
    THEN SaveConfig([w EXCEPT !.params[sid][k] = default_val], io)
    ELSE w

\* The loop of _do_factory_reset over the defaults from entry n on.
RECURSIVE ResetFrom(_, _, _, _)
ResetFrom(w, sid, n, io) ==
    LET fac_def == sensors_config[sid].defaults IN
    IF w.exc \/ n > Len(fac_def) THEN w
    ELSE ResetFrom(ResetKey(w, sid, fac_def[n][1], fac_def[n][2], io), sid, n + 1, io)

\* BaseSensor._do_factory_reset
DoFactoryReset(w, sid, io, outcome) ==
    IF sensors_config[sid].defaults = <<>> THEN w
    ELSE LET w1 == ResetFrom(w, sid, 1, io) IN
         IF w1.exc THEN w1
         ELSE PublishState([w1 EXCEPT !.sensors[sid].state = ACTIVE], sid, outcome)

\* command_map[command]() for the sensor's handler of `command`.
RunCommand(w, sid, command, io, outcome) ==
    LET w1 == [w EXCEPT !.ran = @ \cup {command}] IN
    CASE command = "enable"        -> Enable(w1, sid, outcome)
      [] command = "disable"       -> Disable(w1, sid, outcome)
      [] command = "self_test"     -> w1
      [] command = "factory_reset" -> DoFactoryReset(w1, sid, io, outcome)

\* process_command without its test of capabilities.control.
ProcessCommand_AnyCapability(w, sid, command, io, outcome) ==
    IF command \in command_map
    THEN RunCommand(w, sid, command, io, outcome)
    ELSE w

\* BaseSensor.process_command
ProcessCommand(w, sid, command, io, outcome) ==
    IF command \in sensors_config[sid].control /\ command \in command_map
    THEN RunCommand(w, sid, command, io, outcome)
    ELSE w

(***************************************************************************)
(* Sensor scheduler: SensorManager                                         *)
(***************************************************************************)
\* A dict with key k set to v.
Put(f, k, v) == [x \in DOMAIN f \cup {k} |-> IF x = k THEN v ELSE f[x]]

\* `sensor.parameters.get("editable", {}).get("report_interval", DEFAULT...)`
IntervalOf(editable) ==
    IF "report_interval" \in DOMAIN editable
    THEN editable["report_interval"]
    ELSE DEFAULT_UPDATE_SENSOR_INTERVAL

\* _error_handler without its own try/except around the publishing.
ErrorHandler_Unguarded(w, sid, e) ==
    LET w1 == PublishError([w EXCEPT !.exc = FALSE], sid, e.err_pub) IN
    IF w1.exc THEN w1 ELSE SensorError(w1, sid, e.err_state_pub)

\* SensorManager._error_handler: the caught exception ends here; a failing
\* publish_error skips sensor.error(), a failing publish in error() is caught.
ErrorHandler(w, sid, e) ==
    LET w1 == PublishError([w EXCEPT !.exc = FALSE], sid, e.err_pub) IN
    IF w1.exc
    THEN [w1 EXCEPT !.exc = FALSE]
    ELSE [SensorError(w1, sid, e.err_state_pub) EXCEPT !.exc = FALSE]

\* The try block of update_sensors for one due sensor, with its except clause.
PollSensor(w, sid, e) ==
    LET w1 == PublishState(w, sid, e.state_pub)
        w2 == IF w1.exc THEN w1
              ELSE IF e.read = "raise" THEN [w1 EXCEPT !.exc = TRUE]
              ELSE IF e.read = "data" THEN PublishData(w1, sid, e.data_pub)
              ELSE w1
    IN  IF w2.exc
        THEN ErrorHandler([w2 EXCEPT !.failed = @ \cup {sid}], sid, e)
        ELSE w2

\* The loop of update_sensors from the n-th sensor on.  A sensor without an
\* entry in _next_update_times raises KeyError out of the loop.
RECURSIVE UpdateFrom(_, _, _, _)
\* The loop rescheduling a sensor only when its poll raised nothing.
UpdateFrom_RescheduleOnSuccess(w, n, current_time, env) ==
    IF w.exc \/ n > Len(UpdateOrder) THEN w
    ELSE LET sid == UpdateOrder[n] IN
         IF sid \notin DOMAIN w.sensors THEN UpdateFrom(w, n + 1, current_time, env)
         ELSE IF sid \notin DOMAIN w.next THEN [w EXCEPT !.exc = TRUE]
         ELSE IF current_time >= w.next[sid]
         THEN LET interval == IntervalOf(w.params[sid])
                  w1 == PollSensor([w EXCEPT !.polled = @ \cup {sid}], sid, env[sid])
              IN  UpdateFrom(IF sid \in w1.failed THEN w1
                             ELSE [w1 EXCEPT !.next[sid] = current_time + interval],
                             n + 1, current_time, env)
         ELSE UpdateFrom(w, n + 1, current_time, env)

UpdateFrom(w, n, current_time, env) ==
    IF w.exc \/ n > Len(UpdateOrder) THEN w
    ELSE LET sid == UpdateOrder[n] IN
         IF sid \notin DOMAIN w.sensors THEN UpdateFrom(w, n + 1, current_time, env)
         ELSE IF sid \notin DOMAIN w.next THEN [w EXCEPT !.exc = TRUE]
         ELSE IF current_time >= w.next[sid]
         THEN LET interval == IntervalOf(w.params[sid])
                  w1 == PollSensor([w EXCEPT !.polled = @ \cup {sid}], sid, env[sid])
              IN  UpdateFrom([w1 EXCEPT !.next[sid] = current_time + interval],
                             n + 1, current_time, env)
         ELSE UpdateFrom(w, n + 1, current_time, env)

\* SensorManager.update_sensors
UpdateSensors(w, current_time, env) == UpdateFrom(w, 1, current_time, env)

\* The loop `for key, value in parsed_msg.items(): sensor.update_parameter(...)`.
RECURSIVE UpdateAll(_, _, _, _, _)
UpdateAll(w, sid, payload, n, io) ==
    IF w.exc \/ n > Len(payload) THEN w
    ELSE UpdateAll(UpdateParameter(w, sid, payload[n][1], payload[n][2], io),
                   sid, payload, n + 1, io)

\* An inbound message: text that is not JSON, JSON that is not an object, or
\* an object with its "command" value (None: no such key) and its other pairs.
Message(kind, command, payload) == [kind |-> kind, command |-> command, payload |-> payload]

Commands == command_map \cup {"bogus", "calibrate"}

CommandMessages ==
    {Message("invalid", None, <<>>), Message("nondict", None, <<>>)}
        \cup {Message("dict", c, <<>>) : c \in Commands \cup {None}}

ConfigMessages ==
    {Message("invalid", None, <<>>), Message("nondict", None, <<>>)}
        \cup {Message("dict", None, p) : p \in Payloads}

\* The try block of the callback made by _make_cb, for a message on `topic`.
CallbackBody(w, sid, topic, msg, t, io, e) ==
    IF topic = "commands"
    THEN IF msg.kind = "nondict" THEN [w EXCEPT !.exc = TRUE]
         ELSE IF msg.command = None THEN w
         ELSE ProcessCommand(w, sid, msg.command, io, e.state_pub)
    ELSE IF msg.kind = "nondict" THEN w
         ELSE LET w1 == UpdateAll(w, sid, msg.payload, 1, io) IN
              IF w1.exc THEN w1
              ELSE IF HasKey(msg.payload, "report_interval")
              THEN [w1 EXCEPT !.next = Put(@, sid, t + ValueOf(msg.payload, "report_interval"))]
              ELSE w1

\* The callback made by _make_cb(sid): json.loads raising ValueError is only
\* logged, every other exception goes to _error_handler.
Callback(w, sid, topic, msg, t, io, e) ==
    IF sid \notin DOMAIN w.sensors THEN w
    ELSE IF msg.kind = "invalid" THEN w
    ELSE LET w1 == CallbackBody(w, sid, topic, msg, t, io, e) IN
         IF w1.exc THEN ErrorHandler([w1 EXCEPT !.failed = @ \cup {sid}], sid, e) ELSE w1

\* How the set-up of one configured sensor may go: all of it, the import or
\* the constructor or initialize() raising, or a subscribe call raising.
InitOutcomes(sid) ==
    {"ok", "ctor_raise"}
        \cup {o \in {"sub_commands_raise", "sub_config_raise"} :
                 (o = "sub_commands_raise" => "commands" \in sensors_config[sid].subscribe)
                 /\ (o = "sub_config_raise" => "config" \in sensors_config[sid].subscribe)}

\* The loop of initialize_sensors from the n-th configured sensor on.  A failure
\* goes to ErrorHandler.handle_error; when that call reboots the device or
\* raises, nothing more of the start-up is run (w.exc).
RECURSIVE InitFrom(_, _, _, _, _, _)
InitFrom(w, n, t, out, policy, env) ==
    IF w.exc \/ n > Len(SensorIds) THEN w
    ELSE LET sid == SensorIds[n]
             added == [w EXCEPT !.sensors = Put(@, sid, [state |-> ACTIVE])]
             w1 == CASE out[sid] = "ctor_raise" -> w
                     [] out[sid] = "sub_commands_raise" -> added
                     [] out[sid] = "sub_config_raise" ->
                            [added EXCEPT !.subs[sid] = sensors_config[sid].subscribe \ {"config"}]
                     [] out[sid] = "ok" ->
                            [added EXCEPT !.subs[sid] = sensors_config[sid].subscribe,
                                          !.next = Put(@, sid, t)]
         IN  InitFrom([w1 EXCEPT !.exc = (out[sid] # "ok" /\ ~HandleError(policy, env).returned)],
                      n + 1, t, out, policy, env)

\* SensorManager.initialize_sensors
InitializeSensors(w, t, out, policy, env) == InitFrom(w, 1, t, out, policy, env)

(***************************************************************************)
(* Sensor scheduler: actions                                               *)
(***************************************************************************)
NoMessage == Message("invalid", None, <<>>)

\* The state as a world, at the start of an operation.
World ==
    [sensors |-> sensors, params |-> parameters, next |-> next_update_times,
     subs |-> subscribed, disk |-> disk,
     pubs |-> <<>>, saves |-> 0, polled |-> {}, failed |-> {}, ran |-> {},
     exc |-> FALSE]

\* The sensors a tick at the current time finds due.
Due == {sid \in DOMAIN sensors \cap DOMAIN next_update_times : now >= next_update_times[sid]}

\* The record of operation op (on sensor sid, with message msg) that ended in
\* world w, with what held before it: the states of the sensors, the editable
\* parameters and the due sensors.
Last(op, sid, msg, w) ==
    [op |-> op, sid |-> sid, msg |-> msg,
     pre_state |-> sensors, pre_params |-> parameters, pre_next |-> next_update_times,
     due |-> Due,
     polled |-> w.polled, failed |-> w.failed, pubs |-> w.pubs, saves |-> w.saves,
     ran |-> w.ran, raised |-> w.exc, init |-> <<>>]

NoLast(op) ==
    [op |-> op, sid |-> None, msg |-> NoMessage,
     pre_state |-> <<>>, pre_params |-> <<>>, pre_next |-> <<>>, due |-> {},
     polled |-> {}, failed |-> {}, pubs |-> <<>>, saves |-> 0, ran |-> {},
     raised |-> FALSE, init |-> <<>>]

\* The state after an operation that ended in world w.
Commit(w) ==
    /\ sensors' = w.sensors
    /\ parameters' = w.params
    /\ next_update_times' = w.next
    /\ subscribed' = w.subs
    /\ disk' = w.disk
    /\ last_publish' =
          [sid \in DOMAIN last_publish \cup {w.pubs[n].sid : n \in 1..Len(w.pubs)} |->
              IF \E n \in 1..Len(w.pubs) : w.pubs[n].sid = sid THEN now ELSE last_publish[sid]]

InitSensor ==
    /\ phase = "boot"
    /\ now = 0
    /\ sensors = <<>>
    /\ parameters = [sid \in SensorIdSet |-> sensors_config[sid].editable]
    /\ next_update_times = <<>>
    /\ subscribed = [sid \in SensorIdSet |-> {}]
    /\ disk = [sid \in SensorIdSet |-> sensors_config[sid].editable]
    /\ last_publish = <<>>
    /\ last = NoLast("none")

\* Application._initialize_system reaching initialize_sensors, then the main loop.
InitSensors(out, policy, env) ==
    /\ phase = "boot"
    /\ LET w == InitializeSensors(World, now, out, policy, env) IN
        /\ Commit(w)
        /\ phase' = IF w.exc THEN "halted" ELSE "messages"
        /\ last' = [Last("init", None, NoMessage, w) EXCEPT
                        !.init = [out |-> out, policy |-> policy, env |-> env]]
    /\ UNCHANGED now
    /\ UNCHANGED ledVars
    /\ UNCHANGED errorVars
    /\ UNCHANGED systemVars
    /\ UNCHANGED wifiVars
    /\ UNCHANGED lifecycleVars
    /\ UNCHANGED loopVars

\* The main loop's call of update_sensors.  An exception leaving it ends the
\* loop (Application.run hands it to handle_error).
Tick(env) ==
    /\ phase = "update"
    /\ LET w == UpdateSensors(World, now, env) IN
        /\ Commit(w)
        /\ phase' = IF w.exc THEN "halted" ELSE "sleep"
        /\ last' = Last("tick", None, NoMessage, w)
    /\ UNCHANGED now
    /\ UNCHANGED ledVars
    /\ UNCHANGED errorVars
    /\ UNCHANGED systemVars
    /\ UNCHANGED wifiVars
    /\ UNCHANGED lifecycleVars
    /\ UNCHANGED loopVars

\* The main loop's call of check_messages: check_msg hands one pending message
\* of a subscribed topic to its callback.
Deliver(sid, topic, msg, io, e) ==
    /\ phase = "messages"
    /\ topic \in subscribed[sid]
    /\ LET w == Callback(World, sid, topic, msg, now, io, e) IN
        /\ Commit(w)
        /\ last' = Last(IF topic = "commands" THEN "cmd" ELSE "cfg", sid, msg, w)
    /\ phase' = "update"
    /\ UNCHANGED now
    /\ UNCHANGED ledVars
    /\ UNCHANGED errorVars
    /\ UNCHANGED systemVars
    /\ UNCHANGED wifiVars
    /\ UNCHANGED lifecycleVars
    /\ UNCHANGED loopVars

\* The same call with no message pending.
NoDelivery ==
    /\ phase = "messages"
    /\ phase' = "update"
    /\ last' = NoLast("check")
    /\ UNCHANGED <<now, sensors, parameters, next_update_times, subscribed, disk, last_publish>>
    /\ UNCHANGED ledVars
    /\ UNCHANGED errorVars
    /\ UNCHANGED systemVars
    /\ UNCHANGED wifiVars
    /\ UNCHANGED lifecycleVars
    /\ UNCHANGED loopVars

\* The main loop's sleep: the clock has advanced when the next pass begins.
Advance ==
    /\ phase = "sleep"
    /\ now < MaxTime
    /\ now' = now + 1
    /\ phase' = "messages"
    /\ last' = NoLast("advance")
    /\ UNCHANGED <<sensors, parameters, next_update_times, subscribed, disk, last_publish>>
    /\ UNCHANGED ledVars
    /\ UNCHANGED errorVars
    /\ UNCHANGED systemVars
    /\ UNCHANGED wifiVars
    /\ UNCHANGED lifecycleVars
    /\ UNCHANGED loopVars

\* The save_config calls a message to sensor sid can lead to.
SavesOf(sid, topic, msg) ==
    LET editable == DOMAIN parameters[sid]
        fac_def == sensors_config[sid].defaults
    IN  IF topic = "config"
        THEN Cardinality({n \in 1..Len(msg.payload) : msg.payload[n][1] \in editable})
        ELSE IF msg.command = "factory_reset" /\ "factory_reset" \in sensors_config[sid].control
        THEN Cardinality({n \in 1..Len(fac_def) : fac_def[n][1] \in editable})
        ELSE 0

NextSensor ==
    \/ \E policy \in ErrorPolicies, env \in ErrorEnvs :
         \E out \in {o \in [SensorIdSet -> {"ok", "ctor_raise", "sub_commands_raise",
                                            "sub_config_raise"}] :
                         \A sid \in SensorIdSet : o[sid] \in InitOutcomes(sid)} :
            InitSensors(out, policy, env)
    \/ \E env \in {v \in [Due -> PollEnvsUsed] : \A sid \in Due : v[sid] \in PollEnvsOf(sid)} :
            Tick(env)
    \/ \E sid \in SensorIdSet, msg \in CommandMessages :
         \E io \in 0..SavesOf(sid, "commands", msg), e \in CallbackEnvs :
            Deliver(sid, "commands", msg, io, e)
    \/ \E sid \in SensorIdSet, msg \in ConfigMessages :
         \E io \in 0..SavesOf(sid, "config", msg) :
            \E e \in IF io = 0 THEN {AllOk} ELSE {x \in CallbackEnvs : x.state_pub = "ok"} :
                Deliver(sid, "config", msg, io, e)
    \/ NoDelivery
    \/ Advance

(***************************************************************************)
(* Sensor scheduler: properties                                            *)
(***************************************************************************)
\* The error payload of sensor sid is among the messages of the last operation.
ErrorPayloadPublished(sid) ==
    \E n \in 1..Len(last.pubs) :
        /\ last.pubs[n].sid = sid
        /\ last.pubs[n].topic = "errors"
        /\ {"timestamp", "error"} \subseteq last.pubs[n].keys

\* C5: in a tick every due sensor is attempted and rescheduled, whatever the
\* other sensors of the tick raise, and update_sensors returns without raising.
C5_TickIsolatesFaults ==
    last.op = "tick" =>
        /\ ~last.raised
        /\ \A sid \in last.due :
                /\ sid \in last.polled
                /\ next_update_times[sid] = now + IntervalOf(parameters[sid])

\* C6: a sensor whose poll raised in a tick is in state Error at the end of the
\* tick and its error payload {timestamp, error} has been published on its
\* errors topic, for every prior state and every outcome of the error publish.
C6_FailedPollEndsInError ==
    last.op = "tick" =>
        \A sid \in last.failed :
            "errors" \in sensors_config[sid].publish =>
                /\ sensors[sid].state = ERROR
                /\ ErrorPayloadPublished(sid)

C8_ConfigReschedules ==
    (last.op = "cfg" /\ last.msg.kind = "dict" /\ HasKey(last.msg.payload, "report_interval")) =>
        /\ next_update_times[last.sid] = now + ValueOf(last.msg.payload, "report_interval")
        /\ IntervalOf(parameters[last.sid]) = ValueOf(last.msg.payload, "report_interval")

\* C9: update_parameter with a key outside the editable set leaves the
\* in-memory configuration as it was and calls save_config not once.
C9_NonEditableKeyIgnored ==
    (/\ last.op = "cfg" /\ last.msg.kind = "dict"
     /\ \A n \in 1..Len(last.msg.payload) :
            last.msg.payload[n][1] \notin DOMAIN last.pre_params[last.sid]) =>
        /\ parameters = last.pre_params
        /\ last.saves = 0

\* update_parameter was called on s1 with the key "bogus".
C9_Witness ==
    /\ last.op = "cfg" /\ last.sid = "s1"
    /\ last.msg = Message("dict", None, <<(<<"bogus", 1>>)>>)

\* The last operation was a permitted factory_reset on a sensor with defaults.
WasFactoryReset ==
    /\ last.op = "cmd" /\ last.msg.kind = "dict" /\ last.msg.command = "factory_reset"
    /\ "factory_reset" \in sensors_config[last.sid].control
    /\ sensors_config[last.sid].defaults # <<>>

\* Sensor last.sid holds its defaults in memory and in the file, its other
\* editable keys are as before, and it is Active.
IsReset ==
    LET sid == last.sid
        fac_def == sensors_config[sid].defaults
        keys == {fac_def[n][1] : n \in 1..Len(fac_def)}
    IN  /\ \A n \in 1..Len(fac_def) :
                fac_def[n][1] \in DOMAIN parameters[sid] =>
                    /\ parameters[sid][fac_def[n][1]] = fac_def[n][2]
                    /\ disk[sid][fac_def[n][1]] = fac_def[n][2]
        /\ \A k \in DOMAIN parameters[sid] \ keys :
                parameters[sid][k] = last.pre_params[sid][k]
        /\ sensors[sid].state = ACTIVE

WasCommand(sid, command) ==
    /\ last.op = "cmd" /\ last.sid = sid
    /\ last.msg.kind = "dict" /\ last.msg.command = command

\* C11: a sensor's state changes only Active->Disabled by disable,
\* Disabled->Active by enable, to Error on the error path and to Active by
\* factory_reset; enable on a sensor that is not Disabled and disable on one
\* that is not Active change nothing and publish nothing.
C11_StateTransitions ==
    \A sid \in DOMAIN last.pre_state :
        LET a == last.pre_state[sid].state
            b == sensors[sid].state
            allowed ==
                \/ a = b
                \/ a = ACTIVE /\ b = DISABLED /\ WasCommand(sid, "disable")
                \/ a = DISABLED /\ b = ACTIVE /\ WasCommand(sid, "enable")
                \/ b = ERROR /\ sid \in last.failed
                \/ b = ACTIVE /\ WasCommand(sid, "factory_reset")
            refused ==
                \/ WasCommand(sid, "enable") /\ a # DISABLED
                \/ WasCommand(sid, "disable") /\ a # ACTIVE
        IN  /\ allowed
            /\ refused => (a = b /\ last.pubs = <<>> /\ last.failed = {}
                               /\ parameters = last.pre_params)

\* An enable command reached s1 in state Error.
C11_Witness ==
    /\ WasCommand("s1", "enable")
    /\ last.pre_state["s1"].state = ERROR
    /\ sensors["s1"].state = ERROR

\* C12: process_command runs a command only if it is in the sensor's
\* capabilities.control and in command_map; any other command name leaves the
\* sensor's state, the parameters and the file as they were, writes nothing
\* and publishes nothing.
C12_OnlyPermittedCommandsRun ==
    (last.op = "cmd" /\ last.msg.kind = "dict" /\ last.msg.command # None) =>
        /\ last.ran \subseteq (sensors_config[last.sid].control \cap command_map)
        /\ (last.msg.command \notin sensors_config[last.sid].control \cap command_map) =>
                /\ last.ran = {}
                /\ sensors = last.pre_state
                /\ parameters = last.pre_params
                /\ last.saves = 0
                /\ last.pubs = <<>>
                /\ last.failed = {}

\* s1, Disabled, received self_test, which its control list does not hold.
C12_Witness ==
    /\ last.op = "cmd" /\ last.sid = "s1" /\ last.msg.kind = "dict"
    /\ last.msg.command = "self_test"
    /\ "self_test" \notin sensors_config["s1"].control
    /\ last.pre_state["s1"].state = DISABLED

\* C29: no exception raised while an inbound message on a sensor's commands
\* or config topic is handled leaves the sensor callback, and the run loop
\* goes on to the scheduler after every such message.
C29_CallbackContainsExceptions ==
    last.op \in {"cmd", "cfg"} => (~last.raised /\ phase = "update")

\* A message to s1 whose handling raised and whose error publish raised too:
\* s1 stays Active and nothing was published.
C29_Witness ==
    /\ last.op \in {"cmd", "cfg"} /\ last.sid = "s1"
    /\ "s1" \in last.failed
    /\ last.pre_state["s1"].state = ACTIVE
    /\ sensors["s1"].state = ACTIVE
    /\ last.pubs = <<>>
    /\ phase = "update"

\* Sensor sid published its state in the last operation.
StatePublished(sid) ==
    \E n \in 1..Len(last.pubs) : last.pubs[n].sid = sid /\ last.pubs[n].topic = "state"

\* C28: a permitted factory_reset command on a sensor ends with the sensor
\* Active and its state published, from every prior state and for every
\* defaults map, an absent or empty one included (provided no call made while
\* handling the command raised).
C28_FactoryResetEndsActive ==
    \A sid \in SensorIdSet :
        (/\ WasCommand(sid, "factory_reset")
         /\ "factory_reset" \in sensors_config[sid].control
         /\ sid \notin last.failed)
            => /\ sensors[sid].state = ACTIVE
               /\ StatePublished(sid)

\* Sensor sid published a data payload in the last operation.
DataPublished(sid) ==
    \E n \in 1..Len(last.pubs) : last.pubs[n].sid = sid /\ last.pubs[n].topic = "data"

\* C13: in a tick a sensor that is Disabled or Error publishes no data
\* payload, and if it is due its next_update_time is advanced to the tick time
\* plus its report interval.
C13_InactiveSensorsKeepTime ==
    last.op = "tick" =>
        \A sid \in DOMAIN last.pre_state :
            last.pre_state[sid].state # ACTIVE =>
                /\ ~DataPublished(sid)
                /\ sid \in last.due =>
                        next_update_times[sid] = now + IntervalOf(parameters[sid])

\* C36: once a sensor is in Error it publishes no data payload and no further
\* error payload, and it stays in Error, until a factory_reset command is
\* processed for it: at every due tick it is polled again, and neither a read
\* that succeeds nor one that fails brings it back to Active or makes it send.
C36_ErrorSensorStaysSilent ==
    \A sid \in DOMAIN last.pre_state :
        (last.pre_state[sid].state = ERROR /\ ~WasCommand(sid, "factory_reset")) =>
            /\ sensors[sid].state = ERROR
            /\ \A n \in 1..Len(last.pubs) :
                    last.pubs[n].sid = sid => last.pubs[n].topic \notin {"data", "errors"}

\* A tick polled s1, which was in Error and due; the poll raised nothing, and
\* only the state of s1 was published.
C36_Witness ==
    /\ last.op = "tick"
    /\ "s1" \in DOMAIN last.pre_state
    /\ last.pre_state["s1"].state = ERROR
    /\ "s1" \in last.due
    /\ "s1" \in last.polled
    /\ "s1" \notin last.failed
    /\ sensors["s1"].state = ERROR
    /\ \E n \in 1..Len(last.pubs) : last.pubs[n] = Msg("s1", "state", {"state"}, ERROR)

\* A tick polled s1, which was in Error and due, and the poll raised.
C36_WitnessFailedRead ==
    /\ last.op = "tick"
    /\ "s1" \in DOMAIN last.pre_state
    /\ last.pre_state["s1"].state = ERROR
    /\ "s1" \in last.failed
    /\ sensors["s1"].state = ERROR

\* The last operation was a config message to a sensor, and the message did
\* not carry a report_interval that the sensor holds as an editable key.
NoIntervalAccepted ==
    /\ last.op = "cfg"
    /\ ~(/\ last.msg.kind = "dict"
         /\ HasKey(last.msg.payload, "report_interval")
         /\ "report_interval" \in DOMAIN last.pre_params[last.sid])

\* C37: a config message changes the sensor's next_update_time only if its
\* report_interval key was accepted as an editable parameter: when the key is
\* rejected (or absent) the schedule is as it was before the message.
C37_RescheduleOnlyIfAccepted ==
    NoIntervalAccepted => next_update_times = last.pre_next

\* C39: the set of keys of each sensor's editable parameters never changes,
\* in memory and in the file, whatever config messages, commands and ticks
\* arrive.  (read_only, defaults and capabilities are the constants
\* sensors_config of this model: no statement of BaseSensor or SensorManager
\* assigns to them or to one of their entries.)
C39_EditableKeysFixed ==
    \A sid \in SensorIdSet :
        /\ DOMAIN parameters[sid] = DOMAIN sensors_config[sid].editable
        /\ DOMAIN disk[sid] = DOMAIN sensors_config[sid].editable

\* A config message with a key that s1 does not hold was processed, after a
\* value of s1 had been changed.
C39_Witness ==
    /\ last.op = "cfg" /\ last.sid = "s1"
    /\ last.msg.kind = "dict"
    /\ HasKey(last.msg.payload, "bogus")
    /\ parameters["s1"] # sensors_config["s1"].editable

\* C40: when save_config fails during the parameter update of a config
\* message the update has no effect: the editable values in memory are those
\* before the message (and so still agree with the file if they did), and
\* the state of the sensor is unchanged.
C40_FailedWriteHasNoEffect ==
    (last.op = "cfg" /\ last.sid \in last.failed) =>
        /\ parameters = last.pre_params
        /\ sensors = last.pre_state
        /\ (last.pre_params = disk => parameters = disk)

\* C14: for every sensor, next_update_time is at least the time of the
\* sensor's last publish, whatever report_interval a config message stored.
C14_NextUpdateAfterLastPublish ==
    \A sid \in DOMAIN last_publish \cap DOMAIN next_update_times :
        next_update_times[sid] >= last_publish[sid]

\* C17: when the construction or initialization of a configured sensor
\* fails, start-up goes on under every error policy: that sensor is not in
\* the collection, every other sensor is initialized, subscribed and seeded,
\* and the main loop is entered.
C17_SensorFailureDoesNotAbortStartup ==
    (/\ last.op = "init"
     /\ \E sid \in SensorIdSet : last.init.out[sid] = "ctor_raise"
     /\ \A sid \in SensorIdSet : last.init.out[sid] \in {"ok", "ctor_raise"}) =>
        /\ ~last.raised
        /\ phase = "messages"
        /\ \A sid \in SensorIdSet :
              IF last.init.out[sid] = "ctor_raise"
              THEN sid \notin DOMAIN sensors
              ELSE /\ sid \in DOMAIN sensors
                   /\ sensors[sid].state = ACTIVE
                   /\ subscribed[sid] = sensors_config[sid].subscribe
                   /\ sid \in DOMAIN next_update_times
                   /\ next_update_times[sid] = now

\* The last message was a protocol failure: text that is not JSON, JSON that
\* is not an object, a commands message with no command or one the sensor
\* does not run, or a config message none of whose keys is editable.
WasProtocolFailure ==
    /\ last.op \in {"cmd", "cfg"}
    /\ \/ last.msg.kind \in {"invalid", "nondict"}
       \/ /\ last.op = "cmd"
          /\ last.msg.command \notin sensors_config[last.sid].control \cap command_map
       \/ /\ last.op = "cfg"
          /\ last.msg.payload # <<>>
          /\ \A n \in 1..Len(last.msg.payload) :
                 last.msg.payload[n][1] \notin DOMAIN last.pre_params[last.sid]

\* C18: a protocol failure on a sensor topic is dropped: the sensor's state,
\* its parameters, its schedule and the file are as before, nothing is
\* written and the device is not rebooted.
C18_ProtocolFailureDropped ==
    WasProtocolFailure =>
        /\ sensors = last.pre_state
        /\ parameters = last.pre_params
        /\ next_update_times = last.pre_next
        /\ last.saves = 0
        /\ phase # "halted"

(***************************************************************************)
(* The tasks of the event loop in steady state                             *)
(*                                                                         *)
(* The main task runs an iteration of Application.run's loop from the end  *)
(* of one `await asyncio.sleep(10)` to the next; the animation task runs   *)
(* from one `await asyncio.sleep` of _animate_led to the next.  Only an    *)
(* await hands the processor to another task.                              *)
(*                                                                         *)
(* loop.log     what began and what ended, in the order it happened        *)
(* loop.passes  iterations of the main loop so far                         *)
(* loop.frames  resumptions of the animation task so far                   *)
(***************************************************************************)
Begin(what) == [ev |-> "begin", what |-> what]

End(what) == [ev |-> "end", what |-> what]

\* Config.save_config: a synchronous write of the file.
WriteLog == <<Begin("write"), End("write")>>

\* The inbound messages one check_msg may hand over: a command without a
\* write, a factory reset or an accepted configuration (which write the
\* file), a rejected configuration; None: nothing is pending.
InboundKinds == {"command", "factory_reset", "config_accepted", "config_rejected", None}

\* The sensor callback for one message, from its entry to its return.
CallbackLog(m) ==
    <<Begin("callback")>>
        \o (IF m \in {"factory_reset", "config_accepted"} THEN WriteLog ELSE <<>>)
        \o <<End("callback")>>

\* MQTTManager.check_messages: check_msg hands at most one message to
\* _message_router, which calls the callback and returns after it.
CheckMessagesLog(m) == IF m = None THEN <<>> ELSE CallbackLog(m)

\* A publish that also reads the socket and dispatches a pending message.
PublishLog_Dispatches(pending) == IF pending = None THEN <<>> ELSE CallbackLog(pending)

\* MQTTManager.publish: client.publish(topic, message) writes to the socket
\* and reads nothing, whatever is pending at the broker.
PublishLog(pending) == <<>>

\* The poll of one due sensor in update_sensors.
UpdateLog(pending) == <<Begin("update")>> \o PublishLog(pending) \o <<End("update")>>

\* SensorManager.update_sensors for `due` sensors.
RECURSIVE UpdateSensorsLog(_, _)
UpdateSensorsLog(due, pending) ==
    IF due = 0 THEN <<>>
    ELSE UpdateLog(pending) \o UpdateSensorsLog(due - 1, None)

\* One iteration of the main loop up to its asyncio.sleep.
IterationLog(m, due, pending) == CheckMessagesLog(m) \o UpdateSensorsLog(due, pending)

LoopStart == [log |-> <<>>, passes |-> 0, frames |-> 0]

\* The event loop is not followed.
InitLoopIdle == loop = LoopStart

InitLoop == loop = LoopStart

\* The main task's sleep has ended and the scheduler resumes it: one
\* iteration with message m pending at the poll, `due` sensors due, and
\* message `pending` arriving while the sensors are polled.
MainIteration(m, due, pending) ==
    /\ loop.passes < MaxPasses
    /\ loop' = [loop EXCEPT !.log = @ \o IterationLog(m, due, pending),
                            !.passes = @ + 1]
    /\ UNCHANGED ledVars
    /\ UNCHANGED sensorVars
    /\ UNCHANGED errorVars
    /\ UNCHANGED systemVars
    /\ UNCHANGED wifiVars
    /\ UNCHANGED lifecycleVars

\* The scheduler resumes the animation task while the main task sleeps: one
\* write of the pixel, then the task sleeps again.
AnimationFrame ==
    /\ loop.frames < MaxIter
    /\ loop' = [loop EXCEPT !.log = Append(@, [ev |-> "led", what |-> "animation"]),
                            !.frames = @ + 1]
    /\ UNCHANGED ledVars
    /\ UNCHANGED sensorVars
    /\ UNCHANGED errorVars
    /\ UNCHANGED systemVars
    /\ UNCHANGED wifiVars
    /\ UNCHANGED lifecycleVars

NextLoop ==
    \/ \E m \in InboundKinds, due \in 0..Len(UpdateOrder), pending \in InboundKinds :
            MainIteration(m, due, pending)
    \/ AnimationFrame

\* How many activities `what` are in progress after the first n log entries.
RECURSIVE InProgress(_, _)
InProgress(n, what) ==
    IF n = 0 THEN 0
    ELSE InProgress(n - 1, what)
            + (IF loop.log[n] = Begin(what) THEN 1
               ELSE IF loop.log[n] = End(what) THEN -1 ELSE 0)

Init == InitLED /\ InitSensor /\ InitErrorIdle /\ InitSystemIdle /\ InitWifiIdle /\ InitLifecycleIdle /\ InitLoopIdle

SpecLED == Init /\ [][NextLED]_vars

SpecSensor == Init /\ [][NextSensor]_vars

InitHandler == InitLED /\ InitSensor /\ InitError /\ InitSystemIdle /\ InitWifiIdle /\ InitLifecycleIdle /\ InitLoopIdle

SpecError == InitHandler /\ [][NextError]_vars

InitManager == InitLED /\ InitSensor /\ InitErrorIdle /\ InitSystem /\ InitWifiIdle /\ InitLifecycleIdle /\ InitLoopIdle

SpecSystem == InitManager /\ [][NextSystem]_vars

InitDevice == InitLED /\ InitSensor /\ InitErrorIdle /\ InitSystemIdle /\ InitWifi /\ InitLifecycleIdle /\ InitLoopIdle

SpecWifi == InitDevice /\ [][NextWifi]_vars

InitStates == InitLED /\ InitSensor /\ InitErrorIdle /\ InitSystemIdle /\ InitWifiIdle /\ InitLifecycle /\ InitLoopIdle

SpecLifecycle == InitStates /\ [][NextLifecycle]_vars

InitTasks == InitLED /\ InitSensor /\ InitErrorIdle /\ InitSystemIdle /\ InitWifiIdle /\ InitLifecycleIdle /\ InitLoop

SpecLoop == InitTasks /\ [][NextLoop]_vars

====
